---- MODULE Spec2Model ----
(***************************************************************************)
(* The job submission and polling state machine of frontend/app.js:        *)
(* the three submit handlers, startJobPolling, its poll callback driven by *)
(* setInterval, and the remote job service the status queries talk to.     *)
(***************************************************************************)
EXTENDS Integers, FiniteSets, Sequences, Bags, TLC

\* Bounds of the model.
MaxSubmits == 2     \* submissions made in one run
MaxQueries == 2     \* status queries issued in one run, all sessions together

MaxClock == 2       \* advances of the clock in one run
ClockStep == 500    \* milliseconds of one advance of the clock
MaxLen == 3         \* length of the text typed into a field
HistoryLimit == 10  \* items kept in the history list

\* Text is a sequence of characters: a letter, the slash and the blank.
Chars == {"a", "/", " "}
Strings == UNION {[1..n -> Chars] : n \in 0..MaxLen}

\* window.location.hostname of the page.
Hosts == {"localhost", "127.0.0.1", "example.com"}

JobTypes == {"face", "video", "lipsync"}
JobIds == 1..MaxSubmits
Terminal == {"completed", "failed"}
Status == {"pending", "processing"} \cup Terminal

\* state.currentJob = null
NoJob == [job_id |-> 0, job_type |-> "null", status |-> "null", result_url |-> "null",
          error |-> "null"]
\* the body of a non-2xx answer read as a job record: none of the fields exists
ErrorBody == [job_id |-> 0, job_type |-> "undefined", status |-> "undefined",
              result_url |-> "undefined", error |-> "undefined"]

VARIABLES
    currentJob,     \* state.currentJob
    pollingTimer,   \* state.pollingTimer: the last handle setInterval returned, 0 = null
    activeTimers,   \* the interval timers of the page that have not been cleared
    reqs,           \* bag of status requests in flight: [job, resp]
    serverType,     \* remote service: type of each job ("none": not created)
    serverStatus,   \* remote service: status of each job
    serverError,    \* remote service: error text of each job ("null": none)
    subs,           \* per form: the submission request in flight, if any
    btnLoading,     \* per form: the generate button is in the loading state
    display,        \* status badge, panels, progress/message shown
    toast,          \* the last toast shown
    issued,         \* per session, the status queries issued
    ticks,          \* per session, the interval ticks that fired
    effects,        \* per session, the terminal side effects executed
    nSubmits,       \* submissions made so far
    now,            \* Date.now(), in milliseconds
    startTime,      \* per session, the startTime of its poll closure
    statusTime,     \* the elapsed seconds shown, and the session polled when
                    \* they were written
    host,           \* window.location.hostname
    settings,       \* state.settings.apiBaseUrl, as stored in localStorage
    apiBase,        \* API_BASE
    otherSettings,  \* state.settings: its fields other than apiBaseUrl
    storage,        \* localStorage item 'apiSettings': its text, <<>> = no item
    settingsReq,    \* the request that sends the settings to the backend
    uploadedFiles,  \* state.uploadedFiles: per single-upload slot, a file is held
    lipsyncText,    \* the value of the speech text field
    currentCategory,\* state.currentCategory: the panel shown
    history,        \* the items of the history list, first child first: the job
                    \* of each item and the order in which it was added
    resultView      \* the result display: the job shown, the continue button
                    \* hidden or not, and its onclick handler

vars == <<currentJob, pollingTimer, activeTimers, reqs, serverType, serverStatus,
          serverError,
          subs, btnLoading, display, toast, issued, ticks,
          effects, nSubmits, now, startTime, statusTime, host, settings, apiBase,
          otherSettings, storage, settingsReq,
          uploadedFiles, lipsyncText, currentCategory,
          history, resultView>>

serverVars == <<serverType, serverStatus, serverError>>
formVars == <<subs, btnLoading>>
countVars == <<issued, ticks>>
\* Page state that the poller and the submit handlers only read.
settingsVars == <<host, settings, apiBase, otherSettings, storage, settingsReq>>
inputVars == <<uploadedFiles, lipsyncText>>
pageVars == <<now, settingsVars, inputVars, currentCategory>>

NoEffects == [showResult |-> 0, toastCompleted |-> 0, addToHistory |-> 0,
              toastFailed |-> 0]

\* String.prototype.trim, lines 17, 613.
RECURSIVE TrimStart(_)
TrimStart(str) ==
    IF str # <<>> /\ Head(str) = " " THEN TrimStart(Tail(str)) ELSE str

RECURSIVE TrimEnd(_)
TrimEnd(str) ==
    IF str # <<>> /\ str[Len(str)] = " "
    THEN TrimEnd(SubSeq(str, 1, Len(str) - 1))
    ELSE str

Trim(str) == TrimEnd(TrimStart(str))

\* value.replace(/\/$/, ''): one slash at the end of the text is removed.
StripSlash(str) ==
    IF str # <<>> /\ str[Len(str)] = "/" THEN SubSeq(str, 1, Len(str) - 1) ELSE str

EndsWithSlash(str) == str # <<>> /\ str[Len(str)] = "/"

\* The default the specification states: the origin of the page + '/api'.
ComputeDefaultApiBase_Origin(h) == <<h, "/", "api">>

\* computeDefaultApiBase, lines 8-14; the origin of the page is written as
\* its host.
ComputeDefaultApiBase(h) ==
    IF h = "localhost" \/ h = "127.0.0.1"
    THEN <<"http://localhost:8000", "/", "api">>
    ELSE <<h, "/", "api">>

\* setApiBase, lines 16-24: the value API_BASE gets.
SetApiBase(url, h) ==
    LET value == Trim(url) IN
    IF value = <<>> THEN ComputeDefaultApiBase(h) ELSE StripSlash(value)

\* The page at rest after construction: no job, no timer, nothing in flight.
IdlePage ==
    /\ currentJob = NoJob
    /\ pollingTimer = 0
    /\ activeTimers = {}
    /\ reqs = EmptyBag
    /\ serverType = [j \in JobIds |-> "none"]
    /\ serverStatus = [j \in JobIds |-> "none"]
    /\ serverError = [j \in JobIds |-> "null"]
    /\ subs = [f \in JobTypes |-> "idle"]
    /\ btnLoading = [f \in JobTypes |-> FALSE]
    /\ display = [badge |-> "initial", jobStatusHidden |-> TRUE,
                  resultHidden |-> TRUE, shown |-> <<0, "none">>]
    /\ toast = [type |-> "none", msg |-> "none"]
    /\ issued = [j \in JobIds |-> 0]
    /\ ticks = [j \in JobIds |-> 0]
    /\ effects = [j \in JobIds |-> NoEffects]
    /\ nSubmits = 0
    /\ now = 0
    /\ startTime = [j \in JobIds |-> 0]
    /\ statusTime = [elapsed |-> 0, window |-> 0]
    /\ currentCategory = "image"
    /\ resultView = [job |-> 0, btnHidden |-> TRUE, onclick |-> "none"]

\* The lip-sync providers of the provider tabs.
Providers == {"elevenlabs", "synclabs", "did"}

\* The text of a key or model field: empty or filled in.
FieldTexts == {"", "key"}

\* The settings other than the Backend API URL that the form holds.
OtherSettings == [lipsyncProvider : Providers, replicateKey : FieldTexts]

\* state.settings as constructed (lines 50-57).
DefaultSettings ==
    [apiBaseUrl |-> <<>>, replicateKey |-> "", lipsyncProvider |-> "elevenlabs"]

\* The object saveSettings builds from the form (lines 326-335).
SettingsObject(url, other) ==
    [apiBaseUrl |-> url, replicateKey |-> other.replicateKey,
     lipsyncProvider |-> other.lipsyncProvider]

\* The keys of the settings object, in the order saveSettings writes them.
SettingsKeys == <<"apiBaseUrl", "replicateKey", "lipsyncProvider">>

\* A serialisation that leaves the provider out.
Stringify_NoProvider(obj) == [i \in 1..2 |-> <<SettingsKeys[i], obj[SettingsKeys[i]]>>]

\* JSON.stringify of the settings object (line 337): the text lists each key
\* with its value.
Stringify(obj) ==
    [i \in 1..Len(SettingsKeys) |-> <<SettingsKeys[i], obj[SettingsKeys[i]]>>]

\* JSON.parse of a stored text (line 277): the object of its keys and values.
Parse(text) ==
    [k \in {text[i][1] : i \in 1..Len(text)} |->
        text[CHOOSE i \in 1..Len(text) : text[i][1] = k][2]]

\* { ...base, ...over } (line 278).
Spread(base, over) ==
    [k \in DOMAIN base \cup DOMAIN over |->
        IF k \in DOMAIN over THEN over[k] ELSE base[k]]

\* state.settings after loadSettings on a fresh page (lines 273-279).
LoadSettings(text) ==
    IF text = <<>> THEN DefaultSettings ELSE Spread(DefaultSettings, Parse(text))

\* Nothing was ever saved: default settings, no stored item, no request.
NothingSaved ==
    /\ otherSettings = [lipsyncProvider |-> "elevenlabs", replicateKey |-> ""]
    /\ storage = <<>>
    /\ settingsReq = "none"

\* The single-upload slots of the video and lipsync forms.
Slots == {"video", "videoMotion", "lipsync"}

\* The forms are filled in: every slot holds a file and a speech text is typed.
FormsFilled ==
    /\ uploadedFiles = [sl \in Slots |-> TRUE]
    /\ lipsyncText = <<"a">>

Init ==
    /\ IdlePage
    /\ FormsFilled
    /\ host = "localhost"
    /\ settings = <<>>
    /\ apiBase = SetApiBase(settings, host)
    /\ NothingSaved
    /\ history = <<>>

----------------------------------------------------------------------------
\* Helpers of the poller.

RECURSIVE SumTo(_, _)
SumTo(f, n) == IF n = 0 THEN 0 ELSE f[n] + SumTo(f, n - 1)

\* The status queries issued so far.
TotalIssued == SumTo(issued, MaxSubmits)

\* clearInterval(handle): a handle that is not active (null, already cleared)
\* is ignored.
ClearInterval(timers, handle) == timers \ {handle}

\* fetch(`${API_BASE}/jobs/${jobId}`): one more request in flight, tagged by
\* the jobId of the closure that issued it.
IssueRequest(rs, jobId) == rs (+) SetToBag({[job |-> jobId, resp |-> "none"]})

\* showToast(message, type)
ShowToast(type, msg) == toast' = [type |-> type, msg |-> msg]

\* A startJobPolling that forgets to clear the previous polling.
ClearPrevious_Skip(timers, handle) == timers

\* startJobPolling, lines 652-654: clear the previous polling, if any.
\* A cancel that runs only when the handle is null.
ClearPrevious_WhenNull(timers, handle) ==
    IF handle = 0 THEN ClearInterval(timers, handle) ELSE timers

ClearPrevious(timers, handle) ==
    IF handle # 0 THEN ClearInterval(timers, handle) ELSE timers

\* A startJobPolling that leaves the first query to the first interval tick.
InitialPoll_None(rs, jobId) == rs

\* startJobPolling, line 719: the initial poll() runs up to its first await,
\* that is, it calls fetch before startJobPolling goes on to setInterval.
InitialPoll(rs, jobId) == IssueRequest(rs, jobId)

\* The handle setInterval returns is fresh; a session installs one timer and
\* job ids are unique, so the handle is named after the session's job id.
SetInterval(timers, jobId) == timers \cup {jobId}

\* startJobPolling(jobId, jobType)
StartJobPolling(jobId, jobType) ==
    /\ currentJob' = [job_id |-> jobId, job_type |-> jobType,
                      status |-> "undefined", result_url |-> "undefined",
                      error |-> "undefined"]
    /\ display' = [display EXCEPT !.jobStatusHidden = FALSE,
                                  !.resultHidden = TRUE,
                                  !.badge = "processing"]
    /\ reqs' = InitialPoll(reqs, jobId)
    /\ issued' = [issued EXCEPT ![jobId] = BagCardinality(reqs') - BagCardinality(reqs)]
    /\ activeTimers' = SetInterval(ClearPrevious(activeTimers, pollingTimer), jobId)
    /\ pollingTimer' = jobId
    /\ startTime' = [startTime EXCEPT ![jobId] = now]

----------------------------------------------------------------------------
\* The submit handlers (submitFaceGeneration, submitVideoGeneration,
\* submitLipsyncGeneration), past their validation of the form.

SubmitOutcomes == {"ok", "okbadjson", "detail", "nodetail", "badjson", "throw"}

\* A catch that shows the generic text whatever the error.
SubmitErrorMessage_Generic(outcome) == "Generation failed"

\* The message of the error the catch of a submit handler receives.
SubmitErrorMessage(outcome) ==
    CASE outcome = "detail" -> "detail"                 \* error.detail
      [] outcome = "nodetail" -> "Generation failed"    \* || 'Generation failed'
      [] outcome \in {"badjson", "okbadjson"} -> "parse error"   \* response.json() rejects
      [] OTHER -> "network error"                      \* fetch rejects

\* The submit handler up to its await of fetch: the button is set loading and
\* the request is sent.
\* A setButtonLoading that only ever disables the button.
SetButtonLoading_OnlySets(loading, f, value) == [loading EXCEPT ![f] = TRUE]

\* setButtonLoading (lines 803-810) on the generate button of form f.
SetButtonLoading(loading, f, value) == [loading EXCEPT ![f] = value]

\* A validation of the lipsync form that does not trim the speech text.
MissingInput_NoTrim(f) ==
    CASE f = "video" ->
            IF ~uploadedFiles.video THEN "startImage required"
            ELSE IF ~uploadedFiles.videoMotion THEN "drivingVideo required"
            ELSE "none"
      [] f = "lipsync" ->
            IF ~uploadedFiles.lipsync THEN "sourceVideo required"
            ELSE IF lipsyncText = <<>> THEN "speechText required"
            ELSE "none"
      [] OTHER -> "none"

\* The validation at the top of the submit handlers (lines 553-560, 605-614):
\* the first input found missing, "none" when the form may be sent.
MissingInput(f) ==
    CASE f = "video" ->
            IF ~uploadedFiles.video THEN "startImage required"
            ELSE IF ~uploadedFiles.videoMotion THEN "drivingVideo required"
            ELSE "none"
      [] f = "lipsync" ->
            IF ~uploadedFiles.lipsync THEN "sourceVideo required"
            ELSE IF Trim(lipsyncText) = <<>> THEN "speechText required"
            ELSE "none"
      [] OTHER -> "none"

\* The form is submitted with an input missing: the handler shows which and
\* returns.
SubmitRejected(f) ==
    /\ ~btnLoading[f]
    /\ MissingInput(f) # "none"
    /\ ShowToast("error", MissingInput(f))
    /\ UNCHANGED <<currentJob, pollingTimer, activeTimers, reqs, serverVars, formVars,
                   display, countVars, effects, nSubmits, startTime, statusTime,
                   pageVars, history,
                   resultView>>

Submit(f) ==
    /\ nSubmits < MaxSubmits
    /\ ~btnLoading[f]
    /\ MissingInput(f) = "none"
    /\ btnLoading' = SetButtonLoading(btnLoading, f, TRUE)
    /\ subs' = [subs EXCEPT ![f] = "inflight"]
    /\ nSubmits' = nSubmits + 1
    /\ UNCHANGED <<startTime, statusTime, pageVars, history, resultView,
                   currentJob, pollingTimer, activeTimers, reqs, serverVars,
                   display, toast, countVars, effects>>

\* The remote service accepts the submission: it creates the job and answers
\* { job_id }; the handler shows the toast and starts polling.
SubmitAccepted(f) ==
    /\ subs[f] = "inflight"
    /\ TotalIssued < MaxQueries
    /\ LET jobId == Cardinality({j \in JobIds : serverType[j] # "none"}) + 1 IN
        /\ jobId \in JobIds
        /\ serverType' = [serverType EXCEPT ![jobId] = f]
        /\ serverStatus' = [serverStatus EXCEPT ![jobId] = "pending"]
        /\ ShowToast("success", "processing...")
        /\ StartJobPolling(jobId, f)
    /\ btnLoading' = SetButtonLoading(btnLoading, f, FALSE)
    /\ subs' = [subs EXCEPT ![f] = "idle"]
    /\ UNCHANGED <<serverError, ticks, effects, nSubmits, statusTime, pageVars,
                   history,
                   resultView>>

\* The submission fails: non-2xx answer (with or without a detail, or with a
\* body that is no JSON), a 2xx answer whose body is no JSON, or fetch throws.
SubmitFailed(f, outcome) ==
    /\ subs[f] = "inflight"
    /\ outcome # "ok"
    /\ ShowToast("error", SubmitErrorMessage(outcome))
    /\ btnLoading' = SetButtonLoading(btnLoading, f, FALSE)
    /\ subs' = [subs EXCEPT ![f] = "idle"]
    /\ UNCHANGED <<startTime, statusTime, pageVars, history, resultView,
                   currentJob, pollingTimer, activeTimers, reqs, serverVars,
                   display, countVars, effects, nSubmits>>

----------------------------------------------------------------------------
\* The poll callback of startJobPolling.

\* An interval tick of the timer of session jobId fires: poll() calls fetch.
\* Nothing makes the tick wait for the answer to an earlier request.
Tick(jobId) ==
    /\ jobId \in activeTimers
    /\ TotalIssued < MaxQueries
    /\ reqs' = IssueRequest(reqs, jobId)
    /\ issued' = [issued EXCEPT ![jobId] = @ + 1]
    /\ ticks' = [ticks EXCEPT ![jobId] = @ + 1]
    /\ UNCHANGED <<startTime, statusTime, pageVars, history, resultView,
                   currentJob, pollingTimer, activeTimers, serverVars, formVars,
                   display, toast, effects, nSubmits>>

\* How a status request settles at the page: fetch rejects ("throw"), the
\* answer is non-2xx, its body is no JSON ("badjson"), or it is a 2xx answer
\* carrying the job record ("ok").
Settles == {"ok", "non2xx", "badjson", "throw"}

\* A poll without the check of response.ok.
ResponseOk_Unchecked(how) == TRUE

\* response.ok (line 679)
ResponseOk(how) == how # "non2xx"

\* Whether the try block of poll throws (lines 677-683): fetch rejects, the
\* answer is not ok, or response.json() rejects.
PollThrows(how) == how = "throw" \/ ~ResponseOk(how) \/ how = "badjson"

\* await response.json() (line 683): the record the body parses to. The body
\* of a non-2xx answer is { detail }, which has none of the fields of a job.
ParseJob(r, how) ==
    IF how = "non2xx" THEN ErrorBody
    ELSE [job_id |-> r.job, job_type |-> serverType[r.job], status |-> r.resp,
          result_url |-> IF r.resp = "completed" THEN "url" ELSE "null",
          error |-> IF r.resp = "failed" THEN serverError[r.job] ELSE "null"]

\* A status check whose failed branch does not clear the interval.
TimersAfterStatus_FailedKeeps(timers, handle, status) ==
    IF status = "completed" THEN ClearInterval(timers, handle) ELSE timers

\* A status check that never cancels the timer.
TimersAfterStatus_Never(timers, handle, status) == timers

\* A status check that takes every status it does not know for terminal.
TimersAfterStatus_UnknownStops(timers, handle, status) ==
    IF status \notin {"pending", "processing"} THEN ClearInterval(timers, handle)
    ELSE timers

\* The timers left by the status check of poll (lines 694-709): both terminal
\* branches clear the handle held in state.pollingTimer.
TimersAfterStatus(timers, handle, status) ==
    IF status \in Terminal THEN ClearInterval(timers, handle) ELSE timers

\* A failed branch that shows the generic text whatever the error field.
FailedToastMessage_Generic(error) == "failed"

\* job.error || t('failed') (line 708): the text of the failure toast.
FailedToastMessage(error) == IF error \in {"null", ""} THEN "failed" ELSE error

\* The catch of poll (lines 713-715): console.error, nothing else.
PollCatch ==
    UNCHANGED <<currentJob, pollingTimer, activeTimers, display, toast, effects,
                statusTime, history,
                   resultView>>

\* showResult (lines 729-759): the result of the job is shown; the continue
\* button is shown for a face or video job and hidden for a lipsync job; for
\* a video job its onclick handler is set, and no branch removes it.
ShowResult(view, job) ==
    [job |-> job.job_id,
     btnHidden |-> job.job_type = "lipsync",
     onclick |-> IF job.job_type = "video" THEN "lipsync" ELSE view.onclick]

\* The jobs of the list, all sessions together, that addToHistory has added.
TotalAdded == SumTo([j \in JobIds |-> effects[j].addToHistory], MaxSubmits)

\* An addToHistory that never removes the last child.
AddToHistory_NoLimit(list, job) == <<[job |-> job, seq |-> TotalAdded + 1]>> \o list

\* addToHistory, lines 765-797: the item is inserted before the first child,
\* then the last children are removed while the list has more than 10.
AddToHistory(list, job) ==
    LET inserted == <<[job |-> job, seq |-> TotalAdded + 1]>> \o list IN
    IF Len(inserted) > HistoryLimit THEN SubSeq(inserted, 1, HistoryLimit)
    ELSE inserted

\* Math.round((Date.now() - startTime) / 1000), line 690.
Elapsed(t, start) == ((t - start) + 500) \div 1000

\* poll after a successful answer (lines 685-711); sess is the session whose
\* closure runs.
PollProcess(job, sess) ==
    /\ display' = [display EXCEPT
            !.shown = <<job.job_id, job.status>>,
            !.badge = IF job.status \in Terminal THEN job.status ELSE @,
            !.resultHidden = IF job.status = "completed" THEN FALSE ELSE @]
    /\ activeTimers' = TimersAfterStatus(activeTimers, pollingTimer, job.status)
    /\ effects' = [effects EXCEPT ![sess] =
            IF job.status = "completed"
            THEN [@ EXCEPT !.showResult = @ + 1, !.toastCompleted = @ + 1,
                           !.addToHistory = @ + 1]
            ELSE IF job.status = "failed"
            THEN [@ EXCEPT !.toastFailed = @ + 1]
            ELSE @]
    /\ toast' = IF job.status = "completed" THEN [type |-> "success", msg |-> "completed!"]
                ELSE IF job.status = "failed"
                THEN [type |-> "error", msg |-> FailedToastMessage(job.error)]
                ELSE toast
    /\ statusTime' = [elapsed |-> Elapsed(now, startTime[sess]),
                       window |-> pollingTimer]
    /\ history' = IF job.status = "completed" THEN AddToHistory(history, job)
                  ELSE history
    /\ resultView' = IF job.status = "completed" THEN ShowResult(resultView, job)
                     ELSE resultView
    /\ currentJob' = job
    /\ UNCHANGED pollingTimer

\* A status request settles and poll resumes after its await of fetch. A
\* job record arrives only once the service has answered.
PollSettle(r, how) ==
    /\ BagIn(r, reqs)
    /\ how = "ok" => r.resp # "none"
    /\ reqs' = reqs (-) SetToBag({r})
    /\ IF PollThrows(how) THEN PollCatch ELSE PollProcess(ParseJob(r, how), r.job)
    /\ UNCHANGED <<serverVars, formVars, countVars, nSubmits, startTime, pageVars>>

----------------------------------------------------------------------------
\* The remote job service.

\* The service answers a status request with the job's record as it is now;
\* the answer reaches the page later.
ServerAnswer(r) ==
    /\ BagIn(r, reqs)
    /\ r.resp = "none"
    /\ reqs' = (reqs (-) SetToBag({r})) (+) SetToBag({[r EXCEPT !.resp = serverStatus[r.job]]})
    /\ UNCHANGED <<startTime, statusTime, pageVars, history, resultView,
                   currentJob, pollingTimer, activeTimers, serverVars, formVars,
                   display, toast, countVars, effects, nSubmits>>

\* The error texts of a failed job: a cause, or none.
Errors == {"upstream timeout", "null"}

\* The job advances: pending -> processing -> completed | failed; a job that
\* fails gets its error field, with a cause or without. The page sees the
\* status of a job only in the answers to its requests, so the job is let
\* advance only while a request for it awaits its answer.
ServerAdvance(jobId, st) ==
    /\ BagIn([job |-> jobId, resp |-> "none"], reqs)
    /\ \/ serverStatus[jobId] = "pending" /\ st = "processing"
       \/ serverStatus[jobId] = "processing" /\ st \in Terminal
    /\ serverStatus' = [serverStatus EXCEPT ![jobId] = st]
    /\ \E e \in Errors :
          serverError' = [serverError EXCEPT ![jobId] = IF st = "failed" THEN e ELSE "null"]
    /\ UNCHANGED <<startTime, statusTime, pageVars, history, resultView,
                   currentJob, pollingTimer, activeTimers, reqs, serverType,
                   formVars, display, toast, countVars, effects, nSubmits>>

\* A status string outside the documented set.
OtherStatus == {"queued"}

\* A service that answers a status request with an undocumented status.
ServerAnswerOther(r) ==
    /\ BagIn(r, reqs)
    /\ r.resp = "none"
    /\ \E st \in OtherStatus :
          reqs' = (reqs (-) SetToBag({r})) (+) SetToBag({[r EXCEPT !.resp = st]})
    /\ UNCHANGED <<startTime, statusTime, pageVars, history, resultView,
                   currentJob, pollingTimer, activeTimers, serverVars, formVars,
                   display, toast, countVars, effects, nSubmits>>

----------------------------------------------------------------------------
Requests == [job : JobIds, resp : {"none"} \cup Status \cup OtherStatus]

Next ==
    \/ \E f \in JobTypes : Submit(f)
    \/ \E f \in JobTypes : SubmitAccepted(f)
    \/ \E f \in JobTypes, o \in SubmitOutcomes : SubmitFailed(f, o)
    \/ \E j \in JobIds : Tick(j)
    \/ \E r \in Requests, how \in Settles : PollSettle(r, how)
    \/ \E r \in Requests : ServerAnswer(r)
    \/ \E j \in JobIds, st \in Status : ServerAdvance(j, st)

Spec == Init /\ [][Next]_vars

\* The page with a service that may also answer undocumented statuses.
OpenNext ==
    \/ \E f \in JobTypes : Submit(f)
    \/ \E f \in JobTypes : SubmitAccepted(f)
    \/ \E j \in JobIds : Tick(j)
    \/ \E r \in Requests, how \in Settles : PollSettle(r, how)
    \/ \E r \in Requests : ServerAnswer(r)
    \/ \E r \in Requests : ServerAnswerOther(r)
    \/ \E j \in JobIds, st \in Status : ServerAdvance(j, st)

OpenSpec == Init /\ [][OpenNext]_vars

\* The settings form is submitted with url in the Backend API URL field
\* (lines 261-270) and its other fields as they are: saveSettings, then the
\* settings are sent to the backend, which is reached or not; the handler
\* runs to its end with no other handler in between.
SaveSettings(url, ok) ==
    /\ settingsReq = "none"
    /\ settings' = url
    /\ storage' = Stringify(SettingsObject(url, otherSettings))
    /\ apiBase' = SetApiBase(url, host)
    /\ UNCHANGED <<otherSettings, settingsReq>>
    /\ IF ok THEN ShowToast("success", "settingsSaved")
             ELSE ShowToast("error", "Failed to reach backend")
    /\ UNCHANGED <<currentJob, pollingTimer, activeTimers, reqs, serverVars, formVars,
                   display, countVars, effects, nSubmits, now, startTime,
                   statusTime, host, inputVars, currentCategory,
                   history,
                   resultView>>

\* The settings form is submitted up to its await (lines 261-264):
\* saveSettings stores the form and sets API_BASE, then the request to the
\* backend is sent.
SubmitSettings(url, other) ==
    /\ settingsReq = "none"
    /\ settings' = url
    /\ otherSettings' = other
    /\ storage' = Stringify(SettingsObject(url, other))
    /\ apiBase' = SetApiBase(url, host)
    /\ settingsReq' = "inflight"
    /\ UNCHANGED <<currentJob, pollingTimer, activeTimers, reqs, serverVars, formVars,
                   display, toast, countVars, effects, nSubmits, now, startTime,
                   statusTime, host, inputVars, currentCategory, history,
                   resultView>>

\* The request to the backend settles (lines 264-269, 341-353): reached with
\* a 2xx answer, or not.
SettingsSettle(ok) ==
    /\ settingsReq = "inflight"
    /\ settingsReq' = "none"
    /\ IF ok THEN ShowToast("success", "settingsSaved")
             ELSE ShowToast("error", "Failed to reach backend")
    /\ UNCHANGED <<currentJob, pollingTimer, activeTimers, reqs, serverVars, formVars,
                   display, countVars, effects, nSubmits, now, startTime,
                   statusTime, host, settings, apiBase, otherSettings, storage,
                   inputVars, currentCategory, history,
                   resultView>>

\* The page is loaded anew with nothing polled: state is constructed,
\* initSettings runs loadSettings and setApiBase (lines 216-219), and the
\* request of the page left, if any, is gone.
ReloadPage ==
    /\ pollingTimer = 0
    /\ LET loaded == LoadSettings(storage) IN
        /\ settings' = loaded.apiBaseUrl
        /\ otherSettings' = [lipsyncProvider |-> loaded.lipsyncProvider,
                             replicateKey |-> loaded.replicateKey]
        /\ apiBase' = SetApiBase(loaded.apiBaseUrl, host)
    /\ settingsReq' = "none"
    /\ toast' = [type |-> "none", msg |-> "none"]
    /\ UNCHANGED <<currentJob, pollingTimer, activeTimers, reqs, serverVars, formVars,
                   display, countVars, effects, nSubmits, now, startTime,
                   statusTime, host, storage, inputVars, currentCategory, history,
                   resultView>>

\* The settings form, its request and page loads.
StoreNext ==
    \/ \E url \in Strings, other \in OtherSettings : SubmitSettings(url, other)
    \/ \E ok \in BOOLEAN : SettingsSettle(ok)
    \/ ReloadPage

StoreSpec == Init /\ [][StoreNext]_vars

\* The page loaded (initSettings, lines 216-219) on any host with any stored
\* Backend API URL of an earlier visit.
ApiInit ==
    /\ IdlePage
    /\ FormsFilled
    /\ host \in Hosts
    /\ settings \in Strings
    /\ apiBase = SetApiBase(settings, host)
    /\ otherSettings = [lipsyncProvider |-> "elevenlabs", replicateKey |-> ""]
    /\ storage = Stringify(SettingsObject(settings, otherSettings))
    /\ settingsReq = "none"
    /\ history = <<>>

ApiNext == \E url \in Strings, ok \in BOOLEAN : SaveSettings(url, ok)

ApiSpec == ApiInit /\ [][ApiNext]_vars

\* The page after earlier jobs have completed: the history list is one item
\* short of its limit.
HistInit ==
    /\ IdlePage
    /\ FormsFilled
    /\ host = "localhost"
    /\ settings = <<>>
    /\ apiBase = SetApiBase(settings, host)
    /\ NothingSaved
    /\ history = [i \in 1..(HistoryLimit - 1) |->
                    [job |-> [job_id |-> 0, job_type |-> "face", status |-> "completed",
                              result_url |-> "url", error |-> "null"],
                     seq |-> 0 - i]]

HistNext ==
    \/ \E f \in JobTypes : Submit(f)
    \/ \E f \in JobTypes : SubmitAccepted(f)
    \/ \E j \in JobIds : Tick(j)
    \/ \E r \in Requests : PollSettle(r, "ok")
    \/ \E r \in Requests : ServerAnswer(r)
    \/ \E j \in JobIds, st \in Status : ServerAdvance(j, st)

HistSpec == HistInit /\ [][HistNext]_vars

\* A file is chosen for, or dropped on, a single-upload slot (lines 428-440,
\* 450-468).
SelectFile(slot) ==
    /\ uploadedFiles' = [uploadedFiles EXCEPT ![slot] = TRUE]
    /\ UNCHANGED <<currentJob, pollingTimer, activeTimers, reqs, serverVars, formVars,
                   display, toast, countVars, effects, nSubmits, startTime,
                   statusTime, now, settingsVars, lipsyncText, currentCategory,
                   history,
                   resultView>>

\* The remove button of a slot (lines 442-447).
RemoveFile(slot) ==
    /\ uploadedFiles' = [uploadedFiles EXCEPT ![slot] = FALSE]
    /\ UNCHANGED <<currentJob, pollingTimer, activeTimers, reqs, serverVars, formVars,
                   display, toast, countVars, effects, nSubmits, startTime,
                   statusTime, now, settingsVars, lipsyncText, currentCategory,
                   history,
                   resultView>>

\* A character is typed at the end of the speech text.
TypeText(c) ==
    /\ Len(lipsyncText) < MaxLen
    /\ lipsyncText' = Append(lipsyncText, c)
    /\ UNCHANGED <<currentJob, pollingTimer, activeTimers, reqs, serverVars, formVars,
                   display, toast, countVars, effects, nSubmits, startTime,
                   statusTime, now, settingsVars, uploadedFiles, currentCategory,
                   history,
                   resultView>>

\* The last character of the speech text is deleted.
DeleteText ==
    /\ lipsyncText # <<>>
    /\ lipsyncText' = SubSeq(lipsyncText, 1, Len(lipsyncText) - 1)
    /\ UNCHANGED <<currentJob, pollingTimer, activeTimers, reqs, serverVars, formVars,
                   display, toast, countVars, effects, nSubmits, startTime,
                   statusTime, now, settingsVars, uploadedFiles, currentCategory,
                   history,
                   resultView>>

\* The page after construction: no file uploaded, no speech text.
FormInit ==
    /\ IdlePage
    /\ host = "localhost"
    /\ settings = <<>>
    /\ apiBase = SetApiBase(settings, host)
    /\ NothingSaved
    /\ uploadedFiles = [sl \in Slots |-> FALSE]
    /\ lipsyncText = <<>>
    /\ history = <<>>

\* The forms: inputs, submissions and their outcomes.
FormNext ==
    \/ \E sl \in Slots : SelectFile(sl)
    \/ \E sl \in Slots : RemoveFile(sl)
    \/ \E c \in {"a", " "} : TypeText(c)
    \/ DeleteText
    \/ \E f \in JobTypes : Submit(f)
    \/ \E f \in JobTypes : SubmitRejected(f)
    \/ \E f \in JobTypes : SubmitAccepted(f)
    \/ \E f \in JobTypes, o \in SubmitOutcomes : SubmitFailed(f, o)

FormSpec == FormInit /\ [][FormNext]_vars

\* The panels of the navigation.
Categories == {"image", "video", "lipsync"}

\* A navigation item is clicked: switchCategory (lines 188-210).
NavClick(c) ==
    /\ currentCategory' = c
    /\ UNCHANGED <<currentJob, pollingTimer, activeTimers, reqs, serverVars, formVars,
                   display, toast, countVars, effects, nSubmits, startTime,
                   statusTime, now, settingsVars, inputVars, history,
                   resultView>>

\* The continue button is clicked while it is shown. Its click listener
\* (lines 502-507) runs first: with a face job that has a result it switches
\* to the video panel. Then the onclick handler runs, if showResult has set
\* one (lines 748-751): it switches to the lipsync panel. A click that
\* neither handler acts on changes nothing.
ContinueClick ==
    /\ ~display.resultHidden
    /\ ~resultView.btnHidden
    /\ LET listener == /\ currentJob.job_type = "face"
                        /\ currentJob.result_url \notin {"null", "undefined"}
       IN /\ listener \/ resultView.onclick = "lipsync"
          /\ currentCategory' = IF resultView.onclick = "lipsync" THEN "lipsync"
                                ELSE "video"
          /\ IF resultView.onclick = "lipsync"
             THEN ShowToast("info", "continueToLipSync")
             ELSE ShowToast("info", "continueToVideo")
    /\ UNCHANGED <<currentJob, pollingTimer, activeTimers, reqs, serverVars, formVars,
                   display, countVars, effects, nSubmits, startTime,
                   statusTime, now, settingsVars, inputVars, history, resultView>>

\* A history item that also makes its job the current job.
HistoryItemClick_SetsJob(i) ==
    /\ i \in 1..Len(history)
    /\ display' = [display EXCEPT !.resultHidden = FALSE]
    /\ resultView' = ShowResult(resultView, history[i].job)
    /\ currentJob' = history[i].job
    /\ UNCHANGED <<pollingTimer, activeTimers, reqs, serverVars, formVars,
                   toast, countVars, effects, nSubmits, startTime,
                   statusTime, pageVars, history>>

\* The i-th history item is clicked: showResult(job) of its job (lines
\* 787-789, 729-759).
HistoryItemClick(i) ==
    /\ i \in 1..Len(history)
    /\ display' = [display EXCEPT !.resultHidden = FALSE]
    /\ resultView' = ShowResult(resultView, history[i].job)
    /\ UNCHANGED <<currentJob, pollingTimer, activeTimers, reqs, serverVars, formVars,
                   toast, countVars, effects, nSubmits, startTime,
                   statusTime, pageVars, history>>

\* The page with the handlers of its controls and the poller: one URL is
\* saved, one upload slot is used, face jobs are submitted and each session
\* issues its first query.
UiNext ==
    \/ \E c \in Categories : NavClick(c)
    \/ ContinueClick
    \/ \E i \in 1..HistoryLimit : HistoryItemClick(i)
    \/ \E ok \in BOOLEAN : SaveSettings(<<"a">>, ok)
    \/ SelectFile("video")
    \/ RemoveFile("video")
    \/ Submit("face")
    \/ SubmitRejected("video")
    \/ SubmitAccepted("face")
    \/ \E r \in Requests : PollSettle(r, "ok")
    \/ \E r \in Requests : ServerAnswer(r)
    \/ \E j \in JobIds, st \in Status : ServerAdvance(j, st)

UiSpec == Init /\ [][UiNext]_vars

\* The terminal side effects of the 'completed' branch, in the order of
\* lines 699-701.
SideEffects == {"showResult", "showToast", "addToHistory"}

\* poll processes a 'completed' answer and the side effect failing throws
\* (lines 694-701): the timer is cleared, the badge set and the side effects
\* before the failing one have run; the catch of line 713 logs the error, so
\* line 711 is not reached. showResult has shown the result display before
\* any of its statements can throw.
PollEffectThrows(r, failing) ==
    /\ BagIn(r, reqs)
    /\ r.resp = "completed"
    /\ reqs' = reqs (-) SetToBag({r})
    /\ display' = [display EXCEPT !.shown = <<r.job, r.resp>>,
                                  !.badge = "completed",
                                  !.resultHidden = FALSE]
    /\ activeTimers' = TimersAfterStatus(activeTimers, pollingTimer, r.resp)
    /\ statusTime' = [elapsed |-> Elapsed(now, startTime[r.job]),
                       window |-> pollingTimer]
    /\ effects' = [effects EXCEPT ![r.job] =
            [@ EXCEPT !.showResult = IF failing = "showResult" THEN @ ELSE @ + 1,
                      !.toastCompleted = IF failing = "addToHistory" THEN @ + 1 ELSE @]]
    /\ toast' = IF failing = "addToHistory"
                THEN [type |-> "success", msg |-> "completed!"]
                ELSE toast
    /\ \/ resultView' = ShowResult(resultView, ParseJob(r, "ok"))
       \/ failing = "showResult" /\ resultView' = resultView
    /\ UNCHANGED <<currentJob, pollingTimer, history, serverVars, formVars, countVars,
                   nSubmits, startTime, pageVars>>

\* The page with terminal side effects that may throw.
ThrowNext ==
    \/ \E f \in JobTypes : Submit(f)
    \/ \E f \in JobTypes : SubmitAccepted(f)
    \/ \E j \in JobIds : Tick(j)
    \/ \E r \in Requests : PollSettle(r, "ok")
    \/ \E r \in Requests, e \in SideEffects : PollEffectThrows(r, e)
    \/ \E r \in Requests : ServerAnswer(r)
    \/ \E j \in JobIds, st \in Status : ServerAdvance(j, st)

ThrowSpec == Init /\ [][ThrowNext]_vars

\* The user submits the face form first and the video form after it.
SubmitInOrder(f) ==
    /\ nSubmits = IF f = "face" THEN 0 ELSE 1
    /\ Submit(f)

\* The page with two submissions issued in a known order; their answers
\* arrive in any order.
RaceNext ==
    \/ \E f \in {"face", "video"} : SubmitInOrder(f)
    \/ \E f \in JobTypes : SubmitAccepted(f)
    \/ \E f \in JobTypes, o \in SubmitOutcomes : SubmitFailed(f, o)
    \/ \E j \in JobIds : Tick(j)
    \/ \E r \in Requests : PollSettle(r, "ok")
    \/ \E r \in Requests : ServerAnswer(r)
    \/ \E j \in JobIds, st \in Status : ServerAdvance(j, st)

RaceSpec == Init /\ [][RaceNext]_vars

\* The page with face and video jobs and the continue button.
ContinueNext ==
    \/ \E f \in {"face", "video"} : Submit(f)
    \/ \E f \in {"face", "video"} : SubmitAccepted(f)
    \/ \E r \in Requests : PollSettle(r, "ok")
    \/ \E r \in Requests : ServerAnswer(r)
    \/ \E j \in JobIds, st \in Status : ServerAdvance(j, st)
    \/ \E c \in Categories : NavClick(c)
    \/ ContinueClick

ContinueSpec == Init /\ [][ContinueNext]_vars

\* Time passes: Date.now() is a non-decreasing clock.
ClockAdvance ==
    /\ now < MaxClock * ClockStep
    /\ now' = now + ClockStep
    /\ UNCHANGED <<currentJob, pollingTimer, activeTimers, reqs, serverVars, formVars,
                   display, toast, countVars, effects, nSubmits, startTime,
                   statusTime, settingsVars, inputVars, currentCategory,
                   history,
                   resultView>>

\* The page with its clock running.
TimeNext ==
    \/ \E f \in JobTypes : Submit(f)
    \/ \E f \in JobTypes : SubmitAccepted(f)
    \/ \E j \in JobIds : Tick(j)
    \/ \E r \in Requests, how \in Settles : PollSettle(r, how)
    \/ \E r \in Requests : ServerAnswer(r)
    \/ \E j \in JobIds, st \in Status : ServerAdvance(j, st)
    \/ ClockAdvance

TimeSpec == Init /\ [][TimeNext]_vars

\* A status query that fails (non-2xx, unparseable body, transport error)
\* while the interval can still issue another one.
PollFails(r, how) ==
    /\ how # "ok"
    /\ TotalIssued < MaxQueries
    /\ PollSettle(r, how)

\* The page under fair scheduling: failed queries are finitely many, and
\* each is followed by another query of the interval.
LiveNext ==
    \/ \E f \in JobTypes : Submit(f)
    \/ \E f \in JobTypes : SubmitAccepted(f)
    \/ \E j \in JobIds : Tick(j)
    \/ \E r \in Requests : PollSettle(r, "ok")
    \/ \E r \in Requests, how \in Settles : PollFails(r, how)
    \/ \E r \in Requests : ServerAnswer(r)
    \/ \E j \in JobIds, st \in Status : ServerAdvance(j, st)

\* The interval keeps firing while its timer is active, every request gets
\* its answer, and every answer is delivered to its poll invocation. The
\* requests of a run are finitely many, so fairness of each kind of step is
\* fairness for each request.
LiveSpec ==
    /\ Init
    /\ [][LiveNext]_vars
    /\ WF_vars(\E j \in JobIds : Tick(j))
    /\ WF_vars(\E r \in Requests : ServerAnswer(r))
    /\ WF_vars(\E r \in Requests : PollSettle(r, "ok"))

----------------------------------------------------------------------------
\* Properties.

\* The status requests of session jobId that are in flight.
InFlight(jobId) ==
    LET Count[S \in SUBSET Requests] ==
            IF S = {} THEN 0
            ELSE LET r == CHOOSE x \in S : TRUE IN
                 (IF r.job = jobId THEN CopiesIn(r, reqs) ELSE 0) + Count[S \ {r}]
    IN Count[BagToSet(reqs)]

\* A step in which startJobPolling runs.
StartStep == \E f \in JobTypes : SubmitAccepted(f)

\* Session jobId has processed a terminal answer.
TerminalProcessed(jobId) ==
    effects[jobId].showResult + effects[jobId].toastFailed >= 1

\* C1: after any sequence of startJobPolling calls at most one interval timer
\* is active, and right after each call exactly one is, the one the call
\* installed: the timer of the previous job has been cancelled.
C1_OneActiveTimer ==
    [][/\ Cardinality(activeTimers') <= 1
       /\ StartStep => /\ activeTimers' = {pollingTimer'}
                       /\ pollingTimer' # pollingTimer]_vars

C1_Witness ==
    /\ pollingTimer = 2
    /\ activeTimers = {2}
    /\ issued[1] >= 1

\* C2: the answer to a status request issued for a superseded job is
\* discarded: it changes neither state.currentJob, nor the polling timer of
\* the job polled now, nor the status/result display.
C2_StaleAnswerDiscarded ==
    [][\A r \in Requests, how \in Settles :
          (PollSettle(r, how) /\ r.job # pollingTimer)
              => UNCHANGED <<currentJob, pollingTimer, activeTimers, display>>]_vars

\* C3: in one polling session the terminal side effects (showResult,
\* addToHistory, the completed toast; the failure toast) run exactly once,
\* however many requests were issued before the terminal answer was processed.
C3_TerminalEffectsOnce ==
    \A j \in JobIds :
        TerminalProcessed(j) =>
            \/ effects[j] = [showResult |-> 1, toastCompleted |-> 1,
                             addToHistory |-> 1, toastFailed |-> 0]
            \/ effects[j] = [showResult |-> 0, toastCompleted |-> 0,
                             addToHistory |-> 0, toastFailed |-> 1]

\* C4: when poll processes a completed or failed answer, the interval timer
\* of that session is not active after the step, and from then on no tick
\* issues a status request for that session.
C4_TerminalStopsTimer ==
    [][/\ \A r \in Requests :
            (PollSettle(r, "ok") /\ r.resp \in Terminal) => r.job \notin activeTimers'
       /\ \A j \in JobIds :
            TerminalProcessed(j) =>
                /\ j \notin activeTimers'
                /\ issued'[j] = issued[j]
                /\ ticks'[j] = ticks[j]]_vars

C4_Witness ==
    \E j \in JobIds :
        /\ pollingTimer = j
        /\ effects[j].toastFailed = 1
        /\ ticks[j] >= 1
        /\ j \notin activeTimers

\* C5: a failed status query (fetch throws, non-2xx answer, body that does
\* not parse) leaves the polling timer, state.currentJob and the display as
\* they were and runs no terminal side effect; while the timer is active the
\* next tick issues a new query (within the bound on queries).
C5_FailedQueryKeepsPolling ==
    /\ [][\A r \in Requests, how \in Settles \ {"ok"} :
             PollSettle(r, how) =>
                 UNCHANGED <<currentJob, pollingTimer, activeTimers, display,
                             toast, effects>>]_vars
    /\ [](\A j \in activeTimers : TotalIssued < MaxQueries => ENABLED Tick(j))

C5_Witness ==
    \E j \in JobIds :
        /\ j \in activeTimers
        /\ issued[j] = 2
        /\ InFlight(j) = 1
        /\ currentJob.job_id = j
        /\ currentJob.status = "undefined"

\* C6: the timer installed by startJobPolling(j, ...) is cancelled only by a
\* terminal answer for job j or by a later startJobPolling call.
C6_CancelledOnlyByOwnTerminalOrStart ==
    [][\A j \in JobIds :
          (j \in activeTimers /\ j \notin activeTimers')
              => \/ StartStep
                 \/ \E r \in Requests :
                        PollSettle(r, "ok") /\ r.job = j /\ r.resp \in Terminal]_vars

\* C7: startJobPolling issues the first status query within the call, so a
\* session has issued one query more than its timer has ticked; a job not
\* yet polled has issued none.
C7_FirstQueryInCall ==
    \A j \in JobIds :
        IF j <= pollingTimer
        THEN issued[j] = ticks[j] + 1
        ELSE issued[j] = 0 /\ ticks[j] = 0

C7_Witness ==
    \E j \in JobIds : ticks[j] >= 1 /\ issued[j] = ticks[j] + 1

\* C8: with a remote service that follows pending -> processing ->
\* {completed | failed}, once state.currentJob.status is completed or failed
\* it keeps that value for every later processed answer of the session.
C8_TerminalStatusKept ==
    [][\A r \in Requests, how \in Settles :
          (PollSettle(r, how) /\ r.job = pollingTimer
                /\ currentJob.job_id = r.job /\ currentJob.status \in Terminal)
              => currentJob'.status = currentJob.status]_vars

\* C9: the status requests of one polling session do not overlap: at most
\* one is in flight at any time.
C9_NoOverlap == \A j \in JobIds : InFlight(j) <= 1

\* The failures of a submission the claim C10 is about.
SubmitFailures == {"detail", "nodetail", "badjson", "throw"}

\* A failed submission does not start polling: state.currentJob, the timer
\* and the requests in flight are as before, and an error toast is shown.
SubmitFailureFrame ==
    /\ UNCHANGED <<currentJob, pollingTimer, activeTimers, reqs, issued, display>>
    /\ toast'.type = "error"

\* C10 as stated: a submission that gets a non-2xx answer or whose fetch
\* throws does not start polling and shows an error toast whose cause is the
\* answer's detail, else 'Generation failed'.
C10_AsStated ==
    [][\A f \in JobTypes, o \in SubmitFailures :
          SubmitFailed(f, o) =>
              /\ SubmitFailureFrame
              /\ toast'.msg = IF o = "detail" THEN "detail"
                              ELSE "Generation failed"]_vars

\* C10 amended: the cause shown is the answer's detail, else 'Generation
\* failed', when the non-2xx body parses; it is the message of the thrown
\* error when fetch throws or the body does not parse.
C10_SubmitFailure ==
    [][\A f \in JobTypes, o \in SubmitFailures :
          SubmitFailed(f, o) =>
              /\ SubmitFailureFrame
              /\ o = "detail" => toast'.msg = "detail"
              /\ o = "nodetail" => toast'.msg = "Generation failed"
              /\ o = "badjson" => toast'.msg = "parse error"
              /\ o = "throw" => toast'.msg = "network error"]_vars

C10_Witness ==
    /\ toast = [type |-> "error", msg |-> "network error"]
    /\ pollingTimer \in activeTimers
    /\ currentJob.job_id = pollingTimer

C12_OtherStatusNonTerminal ==
    [][\A r \in Requests :
          (PollSettle(r, "ok") /\ r.resp \notin Terminal) =>
              /\ currentJob' = [job_id |-> r.job, job_type |-> serverType[r.job],
                                status |-> r.resp, result_url |-> "null",
                                error |-> "null"]
              /\ display' = [display EXCEPT !.shown = <<r.job, r.resp>>]
              /\ UNCHANGED <<pollingTimer, activeTimers, effects, toast>>]_vars

C12_Witness ==
    /\ currentJob.status \in OtherStatus
    /\ currentJob.job_id \in activeTimers
    /\ display.shown = <<currentJob.job_id, currentJob.status>>
    /\ ticks[currentJob.job_id] >= 1

\* The terminal status of job jobId can still reach the page: the interval
\* can issue another query, or a request of the job is in flight that is
\* unanswered or answered with a terminal status.
CanObserve(jobId) ==
    \/ TotalIssued < MaxQueries
    \/ \E r \in Requests :
          BagIn(r, reqs) /\ r.job = jobId /\ r.resp \in {"none"} \cup Terminal

\* C13: under fair scheduling, after finitely many failed queries and
\* non-terminal answers, once the service answers the polled job with a
\* terminal status, polling eventually stops: the timer is cancelled and
\* state.currentJob holds a terminal status.
C13_PollingStops ==
    \A j \in JobIds :
        (/\ pollingTimer = j
         /\ j \in activeTimers
         /\ serverStatus[j] \in Terminal
         /\ CanObserve(j))
        ~> (/\ j \notin activeTimers
            /\ pollingTimer = j => currentJob.status \in Terminal)

C13_Witness ==
    /\ pollingTimer = 1
    /\ activeTimers = {}
    /\ currentJob.job_id = 1
    /\ currentJob.status \in Terminal
    /\ ticks[1] >= 1
    /\ TotalIssued = MaxQueries

\* C14: the elapsed time shown in the status display is non-decreasing over
\* the successful answers processed after one startJobPolling call and before
\* the next.
C14_ElapsedNonDecreasing ==
    [][(/\ pollingTimer' = pollingTimer
        /\ statusTime.window = pollingTimer
        /\ statusTime'.window = pollingTimer)
       => statusTime'.elapsed >= statusTime.elapsed]_vars

C17_NormalisedIdempotent ==
    Trim(settings) # <<>> =>
        /\ ~EndsWithSlash(apiBase)
        /\ SetApiBase(apiBase, host) = apiBase

\* C18 as stated: the API base is the origin of the page + '/api' whenever
\* the stored Backend API URL is empty or blank, and equals the stored URL
\* otherwise.
C18_OriginOrOverride ==
    apiBase = IF Trim(settings) = <<>> THEN <<host, "/", "api">> ELSE settings

\* C18: the API base is the default of computeDefaultApiBase
\* ('http://localhost:8000/api' on localhost and 127.0.0.1, the origin of the
\* page + '/api' elsewhere) whenever the stored Backend API URL is empty or
\* blank; otherwise it is the stored URL trimmed, less one slash at its end.
\* Saving an empty URL returns to the default.
C18_DefaultOrOverride ==
    /\ [](apiBase =
            IF \A i \in 1..Len(settings) : settings[i] = " "
            THEN IF host \in {"localhost", "127.0.0.1"}
                 THEN <<"http://localhost:8000", "/", "api">>
                 ELSE <<host, "/", "api">>
            ELSE LET first == CHOOSE i \in 1..Len(settings) :
                                  /\ settings[i] # " "
                                  /\ \A k \in 1..(i - 1) : settings[k] = " "
                     last == CHOOSE i \in 1..Len(settings) :
                                  /\ settings[i] # " "
                                  /\ \A k \in (i + 1)..Len(settings) : settings[k] = " "
                 IN SubSeq(settings, first, IF settings[last] = "/" THEN last - 1 ELSE last))
    /\ [][\A ok \in BOOLEAN :
            SaveSettings(<<>>, ok) =>
                apiBase' = IF host \in {"localhost", "127.0.0.1"}
                           THEN <<"http://localhost:8000", "/", "api">>
                           ELSE <<host, "/", "api">>]_vars

\* An empty Backend API URL was saved on a deployed page.
C18_Witness ==
    /\ host = "example.com"
    /\ settings = <<>>
    /\ apiBase = <<"example.com", "/", "api">>
    /\ toast.msg = "settingsSaved"

\* C19: the history holds at most 10 items, newest first, all of jobs whose
\* processed status was 'completed'; a failed or non-terminal answer adds no
\* item, a completed one adds its job in front.
C19_HistoryBounded ==
    /\ [](/\ Len(history) <= 10
          /\ \A i, k \in 1..Len(history) : i < k => history[i].seq > history[k].seq
          /\ \A i \in 1..Len(history) : history[i].job.status = "completed")
    /\ [][\A r \in Requests :
            PollSettle(r, "ok") =>
                IF r.resp = "completed"
                THEN /\ history'[1].job.job_id = r.job
                     /\ \A i \in 2..Len(history') : history'[i] = history[i - 1]
                     /\ Len(history') = IF Len(history) < 10 THEN Len(history) + 1 ELSE 10
                ELSE history' = history]_vars

\* Two jobs completed with nine items in the list: the oldest item was
\* removed.
C19_Witness ==
    /\ Len(history) = 10
    /\ history[1].seq = 2
    /\ history[10].seq = 0 - 8

\* C20: the video form sends its request only when both the start image
\* and the driving video are present, the lipsync form only when the source
\* video is present and the speech text is not blank; polling starts only
\* for a request that was sent; a rejected submission leaves the button, the
\* request state, state.currentJob and the polling timer unchanged.
C20_ValidatedSubmit ==
    [][/\ \A f \in JobTypes :
            (subs[f] = "idle" /\ subs'[f] = "inflight") =>
                /\ f = "video" => uploadedFiles.video /\ uploadedFiles.videoMotion
                /\ f = "lipsync" =>
                      /\ uploadedFiles.lipsync
                      /\ \E i \in 1..Len(lipsyncText) : lipsyncText[i] # " "
       /\ \A f \in JobTypes : SubmitAccepted(f) => subs[f] = "inflight"
       /\ \A f \in JobTypes :
            SubmitRejected(f) =>
                UNCHANGED <<btnLoading, subs, currentJob, pollingTimer, activeTimers,
                            reqs, issued>>]_vars

\* The lipsync form was rejected for its blank speech text while job 1 was
\* being polled.
C20_Witness ==
    /\ toast = [type |-> "error", msg |-> "speechText required"]
    /\ uploadedFiles.lipsync
    /\ lipsyncText = <<" ">>
    /\ ~btnLoading["lipsync"]
    /\ pollingTimer = 1
    /\ activeTimers = {1}

\* C16: state.currentJob is written only by startJobPolling and by poll:
\* the continue button, a history item, the navigation, the settings form,
\* the uploads and a form submission up to its answer leave it unchanged.
C16_SingleWriter ==
    [][/\ currentJob' # currentJob =>
            \/ StartStep
            \/ \E r \in Requests : PollSettle(r, "ok")
       /\ (\/ \E c \in Categories : NavClick(c)
           \/ ContinueClick
           \/ \E i \in 1..HistoryLimit : HistoryItemClick(i)
           \/ \E ok \in BOOLEAN : SaveSettings(<<"a">>, ok)
           \/ \E sl \in Slots : SelectFile(sl) \/ RemoveFile(sl)
           \/ \E f \in JobTypes : Submit(f) \/ SubmitRejected(f))
          => currentJob' = currentJob]_vars

\* The continue button was used on a completed face job, and a history item
\* was clicked while the next job is polled.
C16_Witness ==
    /\ currentCategory = "video"
    /\ Len(history) = 1
    /\ pollingTimer = 2
    /\ currentJob.job_id = 2
    /\ currentJob.status = "pending"
    /\ ~display.resultHidden

\* C21: the generate button of a form is in the loading state exactly while
\* the submission request of that form is in flight: the submission sets it,
\* and every way the submission settles (job accepted, non-2xx answer,
\* network error, unparseable body) resets it.
C21_LoadingWhileInFlight ==
    /\ [](\A f \in JobTypes : btnLoading[f] <=> subs[f] = "inflight")
    /\ [][\A f \in JobTypes :
            /\ Submit(f) => btnLoading'[f]
            /\ (SubmitAccepted(f) \/ \E o \in SubmitOutcomes : SubmitFailed(f, o))
                  => ~btnLoading'[f]]_vars

\* One form has its request in flight with its button loading; the other
\* submission has failed and its button is enabled again.
C21_Witness ==
    /\ btnLoading["video"]
    /\ subs["video"] = "inflight"
    /\ ~btnLoading["face"]
    /\ toast = [type |-> "error", msg |-> "network error"]
    /\ nSubmits = 2

\* C22: submitting the settings form stores the settings in local storage
\* and sets API_BASE before the backend is contacted; an unreachable backend
\* or a non-2xx answer changes neither, it only shows an error toast; a later
\* loadSettings restores state.settings as they were saved.
C22_SaveLoadRoundTrip ==
    /\ [](settingsReq = "inflight" =>
            /\ storage = <<<<"apiBaseUrl", settings>>,
                           <<"replicateKey", otherSettings.replicateKey>>,
                           <<"lipsyncProvider", otherSettings.lipsyncProvider>>>>
            /\ apiBase = SetApiBase(settings, host))
    /\ [][\A ok \in BOOLEAN :
            SettingsSettle(ok) =>
                /\ UNCHANGED <<storage, settings, otherSettings, apiBase>>
                /\ toast'.type = IF ok THEN "success" ELSE "error"]_vars
    /\ [][(ReloadPage /\ storage # <<>>) =>
            UNCHANGED <<settings, otherSettings, apiBase>>]_vars

\* Settings with another provider were saved, the backend was not reached,
\* and the page was loaded again.
C22_Witness ==
    /\ storage # <<>>
    /\ otherSettings = [lipsyncProvider |-> "synclabs", replicateKey |-> "key"]
    /\ settings = <<"a", "/">>
    /\ apiBase = <<"a">>
    /\ settingsReq = "none"
    /\ toast.type = "none"

\* C23: whenever a step processes a 'completed' answer and polling stops,
\* state.currentJob is the record of that answer after the step, also when a
\* terminal side effect throws.
C23_CompletedRecordStored ==
    [][\A r \in Requests :
          (/\ r.resp = "completed"
           /\ BagIn(r, reqs)
           /\ reqs' = reqs (-) SetToBag({r})
           /\ activeTimers' # activeTimers)
          => currentJob' = [job_id |-> r.job, job_type |-> serverType[r.job],
                            status |-> "completed", result_url |-> "url",
                            error |-> "null"]]_vars

\* C24: the face form and then the video form were submitted and both
\* submissions were accepted: once both have settled, the job being polled
\* is the job of the video form, the one submitted last, and no other timer
\* is active.
C24_LastIssuedPolled ==
    (/\ subs["face"] = "idle"
     /\ subs["video"] = "idle"
     /\ \E j, k \in JobIds : serverType[j] = "face" /\ serverType[k] = "video")
    => /\ serverType[pollingTimer] = "video"
       /\ activeTimers \subseteq {pollingTimer}

\* C25: whenever state.currentJob is a completed face job with a result_url
\* and its result is the one displayed, a click on the continue button
\* leaves state.currentCategory equal to 'video', whatever jobs completed
\* earlier.
C25_ContinueToVideo ==
    [][(/\ ContinueClick
        /\ currentJob.job_type = "face"
        /\ currentJob.status = "completed"
        /\ currentJob.result_url = "url"
        /\ resultView.job = currentJob.job_id)
       => currentCategory' = "video"]_vars

====
